---- MODULE Spec2Model ----
(***************************************************************************)
(* Model of the scanline fill routines of the Slicer class (src/main.py):  *)
(* boundary reconstruction, the range-keyed line-equation store            *)
(* (line_dict), the scan / intersect / alternate fill loop with its valve  *)
(* toggling, the duration estimate, and the G-code mode and position       *)
(* bookkeeping of the G class that the routines drive.                     *)
(*                                                                         *)
(* Numbers.  Python floats are modelled as fixed-point integers counted    *)
(* in units of 1/Unit.  The decimal roundings of the source keep their     *)
(* relative order of resolution: round(., 5) keeps multiples of ScanStep   *)
(* units, round(., 9) multiples of CoefStep units, and round(., 10),       *)
(* round(., 14) and the '%.6f' output format are at or below one unit.     *)
(* Products and sums are exact; quotients are rounded to the nearest unit, *)
(* half away from zero.                                                    *)
(***************************************************************************)
EXTENDS Integers, Sequences, FiniteSets, TLC

(***************************************************************************)
(* Fixed-point arithmetic                                                  *)
(***************************************************************************)
Unit == 1000
ScanStep == 100
CoefStep == 10

Abs(v) == IF v < 0 THEN -v ELSE v

Sgn(v) == IF v < 0 THEN -1 ELSE IF v > 0 THEN 1 ELSE 0

\* nearest integer to a / b (b # 0), half away from zero: Python 2 round()
RoundDiv(a, b) == Sgn(a) * Sgn(b) * ((2 * Abs(a) + Abs(b)) \div (2 * Abs(b)))

\* round(v, 5): nearest multiple of ScanStep
Round5(v) == RoundDiv(v, ScanStep) * ScanStep

\* round(v, 9): nearest multiple of CoefStep
Round9(v) == RoundDiv(v, CoefStep) * CoefStep

\* round(a / b, 9): the float quotient is rounded once
Round9Div(a, b) == RoundDiv(a, b * CoefStep) * CoefStep

\* round(v, 10) and round(v, 14): nearest unit
Round10(v) == RoundDiv(v, 1)

Round14(v) == RoundDiv(v, 1)

RECURSIVE IsqrtBin(_, _, _)
IsqrtBin(v, lo, hi) ==
    IF lo >= hi THEN lo
    ELSE LET mid == (lo + hi + 1) \div 2
         IN  IF mid * mid <= v THEN IsqrtBin(v, mid, hi)
             ELSE IsqrtBin(v, lo, mid - 1)

\* math.sqrt on a fixed-point square: the largest r with r * r <= v
Isqrt(v) == IsqrtBin(v, 0, 46340)

\* calc_dist: the distance formula, in units
calc_dist(x1, y1, x2, y2) ==
    LET a == (x2 - x1) * (x2 - x1)
        b == (y2 - y1) * (y2 - y1)
        c == a + b
    IN  Isqrt(c)

(***************************************************************************)
(* Sequence helpers (list operations of the source)                        *)
(***************************************************************************)
RECURSIVE SeqContains(_, _)
SeqContains(s, e) ==
    IF s = << >> THEN FALSE
    ELSE IF Head(s) = e THEN TRUE ELSE SeqContains(Tail(s), e)

\* np.delete(arr, k, 0) with a 1-based index
DeleteAt(s, k) == [j \in 1..(Len(s) - 1) |-> IF j < k THEN s[j] ELSE s[j + 1]]

Reverse(s) == [j \in 1..Len(s) |-> s[Len(s) + 1 - j]]

\* calc_theta orders points by the polar angle about the origin, in
\* [0, 360); atan2(0, 0) is 0.  Half 0 holds the angles below 180.
ThetaHalf(p) == IF p[2] > 0 \/ (p[2] = 0 /\ p[1] >= 0) THEN 0 ELSE 1

ThetaDir(p) == IF p = << 0, 0 >> THEN << 1, 0 >> ELSE p

ThetaLess(p, q) ==
    LET a == ThetaDir(p)
        b == ThetaDir(q)
    IN  ThetaHalf(a) < ThetaHalf(b)
        \/ (ThetaHalf(a) = ThetaHalf(b) /\ a[1] * b[2] - a[2] * b[1] > 0)

\* the orderings the source sorts by: "asc" / "desc" on numbers
\* (list.sort(reverse=...)), "point" on [x, y] lists (list.sort), "x" on the
\* first column (np.argsort(arr[:, 0])), "theta" on the polar angle
\* (np.argsort of the calc_theta column)
Less(kind, a, b) ==
    CASE kind = "asc" -> a < b
      [] kind = "desc" -> a > b
      [] kind = "point" -> a[1] < b[1] \/ (a[1] = b[1] /\ a[2] < b[2])
      [] kind = "x" -> a[1] < b[1]
      [] kind = "theta" -> ThetaLess(a, b)

\* insert e after the last element that is not greater: keeps the sort stable
RECURSIVE InsertSorted(_, _, _)
InsertSorted(s, e, kind) ==
    IF s = << >> THEN << e >>
    ELSE IF Less(kind, e, Head(s)) THEN << e >> \o s
         ELSE << Head(s) >> \o InsertSorted(Tail(s), e, kind)

\* stable sort (list.sort, and np.argsort on the short arrays used here)
RECURSIVE SortBy(_, _)
SortBy(s, kind) ==
    IF s = << >> THEN << >>
    ELSE InsertSorted(SortBy(SubSeq(s, 1, Len(s) - 1), kind), s[Len(s)], kind)

(***************************************************************************)
(* Segment Index: line_dict maps a range key <<lo, hi>> to a list of lines *)
(* <<m, b>> (sloped) or <<x>> (vertical, add_equ_x_equals only)            *)
(***************************************************************************)
\* variant: no stored line is ever taken for an equal one
DupY_never(cur, line) == FALSE

\* the `counter` loop of add_equ_y_equals: is an equal [m, b] stored already
RECURSIVE DupY(_, _)
DupY(cur, line) ==
    IF cur = << >> THEN FALSE
    ELSE (Head(cur)[1] = line[1] /\ Head(cur)[2] = line[2])
         \/ DupY(Tail(cur), line)

\* the `counter` loop of add_equ_x_equals: a stored one-element entry is
\* compared on its only element, a stored two-element entry on both
RECURSIVE DupX(_, _)
DupX(cur, line) ==
    IF cur = << >> THEN FALSE
    ELSE LET l == Head(cur)
         IN  (IF Len(l) = 1 THEN l[1] = line[1]
              ELSE l[1] = line[1] /\ Len(line) = 2 /\ l[2] = line[2])
             \/ DupX(Tail(cur), line)

\* line[1] is read on a one-element line when a stored two-element entry has
\* the same first element: IndexError
RECURSIVE RaisesX(_, _)
RaisesX(cur, line) ==
    IF cur = << >> THEN FALSE
    ELSE LET l == Head(cur)
         IN  (Len(l) = 2 /\ l[1] = line[1] /\ Len(line) = 1)
             \/ RaisesX(Tail(cur), line)

Stored(ld, key) == IF key \in DOMAIN ld THEN ld[key] ELSE << >>

PutLine(ld, key, line, dup) ==
    [k \in (DOMAIN ld) \cup {key} |->
        IF k = key
        THEN IF dup THEN Stored(ld, key) ELSE Append(Stored(ld, key), line)
        ELSE ld[k]]

add_equ_y_equals(ld, p1, p2) ==
    LET x1 == p1[1]
        y1 == p1[2]
        x2 == p2[1]
        y2 == p2[2]
    IN  IF (x2 - x1) # 0
        THEN LET m == Round9Div((y2 - y1) * Unit, x2 - x1)
                 b == Round9Div(y1 * Unit - m * x1, Unit)
                 rangex == IF x1 < x2 THEN << x1, x2 >> ELSE << x2, x1 >>
             IN  PutLine(ld, rangex, << m, b >>,
                         DupY(Stored(ld, rangex), << m, b >>))
        ELSE ld

\* the line and the range key add_equ_x_equals computes for an edge
LineX(p1, p2) ==
    LET x1 == p1[1]
        y1 == p1[2]
        x2 == p2[1]
        y2 == p2[2]
    IN  IF x1 = x2
        THEN << Round9(x1) >>
        ELSE << Round9Div((y2 - y1) * Unit, x2 - x1),
                Round9Div(y1 * (x2 - x1) - (y2 - y1) * x1, x2 - x1) >>

RangeY(p1, p2) ==
    LET y1 == Round14(p1[2])
        y2 == Round14(p2[2])
    IN  IF y1 < y2 THEN << y1, y2 >> ELSE << y2, y1 >>

add_equ_x_equals(ld, p1, p2) ==
    PutLine(ld, RangeY(p1, p2), LineX(p1, p2),
            DupX(Stored(ld, RangeY(p1, p2)), LineX(p1, p2)))

\* add_equ_x_equals raises instead of returning
add_equ_x_raises(ld, p1, p2) ==
    RaisesX(Stored(ld, RangeY(p1, p2)), LineX(p1, p2))

\* the edges of a point list, in the order the routines insert them
RECURSIVE InsertEdges(_, _, _)
InsertEdges(ld, edges, align) ==
    IF edges = << >> THEN ld
    ELSE InsertEdges(IF align = "t"
                     THEN add_equ_y_equals(ld, Head(edges)[1], Head(edges)[2])
                     ELSE add_equ_x_equals(ld, Head(edges)[1], Head(edges)[2]),
                     Tail(edges), align)

RECURSIVE EdgesRaise(_, _)
EdgesRaise(ld, edges) ==
    IF edges = << >> THEN FALSE
    ELSE add_equ_x_raises(ld, Head(edges)[1], Head(edges)[2])
         \/ EdgesRaise(add_equ_x_equals(ld, Head(edges)[1], Head(edges)[2]),
                       Tail(edges))

EmptyDict == [k \in {} |-> << >>]

(***************************************************************************)
(* Boundary Builder                                                        *)
(***************************************************************************)
\* find_closest: index (1-based) in others of the point closest to coord;
\* the comparison is strict, so the first of several closest points wins
RECURSIVE find_closest_loop(_, _, _, _, _)
find_closest_loop(coord, others, ind, smallest_dist, ind_closest) ==
    IF ind > Len(others) THEN ind_closest
    ELSE LET d == calc_dist(coord[1], coord[2], others[ind][1], others[ind][2])
         IN  IF d < smallest_dist
             THEN find_closest_loop(coord, others, ind + 1, d, ind)
             ELSE find_closest_loop(coord, others, ind + 1, smallest_dist,
                                    ind_closest)

\* variant: the first unvisited point is taken
find_closest_first(coord, others) == 1

find_closest(coord, others) ==
    find_closest_loop(coord, others, 1,
                      calc_dist(coord[1], coord[2], others[1][1], others[1][2]),
                      1)

\* "if x not in coords_list2: coords_list2.append(x)"
RECURSIVE Dedup(_, _)
Dedup(s, acc) ==
    IF s = << >> THEN acc
    ELSE Dedup(Tail(s), IF SeqContains(acc, Head(s)) THEN acc
                        ELSE Append(acc, Head(s)))

\* t2 / l2: coordinates are rounded to 10 decimals first, and with is_circle
\* the centre [0, 0] is left out
RECURSIVE DedupPolar(_, _, _)
DedupPolar(s, acc, is_circle) ==
    IF s = << >> THEN acc
    ELSE LET x == << Round10(Head(s)[1]), Round10(Head(s)[2]) >>
         IN  DedupPolar(Tail(s),
                        IF SeqContains(acc, x) \/ (is_circle /\ x = << 0, 0 >>)
                        THEN acc ELSE Append(acc, x),
                        is_circle)

\* t4 / l4: "if x not in coords_list_no_dup and x[0] <= 0"
RECURSIVE DedupLeft(_, _)
DedupLeft(s, acc) ==
    IF s = << >> THEN acc
    ELSE DedupLeft(Tail(s),
                   IF SeqContains(acc, Head(s)) \/ Head(s)[1] > 0 THEN acc
                   ELSE Append(acc, Head(s)))

\* t4 / l4: the seed of the chain, searched over all but the last element
RECURSIVE starting_loop(_, _, _)
starting_loop(list, i, starting_ind) ==
    IF i > Len(list) - 1 THEN starting_ind
    ELSE LET s1 == IF list[i][2] < list[starting_ind][2] THEN i
                   ELSE starting_ind
             s2 == IF list[i][2] = list[s1][2] /\ list[i][1] < list[s1][1]
                   THEN i ELSE s1
         IN  starting_loop(list, i + 1, s2)

\* t4 / l4: index from which the left half is rotated
RECURSIVE starting_coord_loop(_, _, _, _)
starting_coord_loop(arr, i, highest_x, ind) ==
    IF i > Len(arr) THEN ind
    ELSE IF arr[i][1] >= highest_x /\ arr[i][2] <= 0 /\ arr[i][2] > arr[1][2]
         THEN starting_coord_loop(arr, i + 1, arr[i][1], i)
         ELSE starting_coord_loop(arr, i + 1, highest_x, ind)

\* consecutive pairs of a point list
Consecutive(arr) == [j \in 1..(Len(arr) - 1) |-> << arr[j], arr[j + 1] >>]

\* mirror over the y axis: arr[:, 0] *= -1, then arr[::-1]
Mirror(arr) == Reverse([j \in 1..Len(arr) |-> << -arr[j][1], arr[j][2] >>])

\* rotate the left half so that it starts at index k
Rotate(arr, k) == SubSeq(arr, k, Len(arr)) \o SubSeq(arr, 1, k - 1)

\* the edges inserted for algorithm 1 and 2: the chain, then first -> last
EdgesClosed(arr) ==
    Consecutive(arr) \o << << arr[1], arr[Len(arr)] >> >>

\* the edges inserted for algorithm 4: left half, stitch, right half, closing
EdgesMirror(left) ==
    LET right == Mirror(left)
    IN  Consecutive(left)
        \o << << left[Len(left)], right[1] >> >>
        \o Consecutive(right)
        \o << << right[Len(right)], left[1] >> >>

\* start vertex of the tangential fills: t1 / t2 take the first point of
\* lowest x, t4 the lowest y among those
RECURSIVE lowest_loop(_, _, _, _)
lowest_loop(list, i, lowest, bottom) ==
    IF i > Len(list) THEN lowest
    ELSE LET c == list[i]
             l1 == IF c[1] < lowest[1] THEN c ELSE lowest
             l2 == IF bottom /\ c[1] = l1[1] /\ c[2] < l1[2] THEN c ELSE l1
         IN  lowest_loop(list, i + 1, l2, bottom)

\* start vertex of the longitudinal fills: l1 / l2 take the first point of
\* highest y, l4 the lowest x among those
RECURSIVE highest_loop(_, _, _, _)
highest_loop(list, i, highest, left) ==
    IF i > Len(list) THEN highest
    ELSE LET c == list[i]
             h1 == IF c[2] > highest[2] THEN c ELSE highest
             h2 == IF left /\ c[2] = h1[2] /\ c[1] < h1[1] THEN c ELSE h1
         IN  highest_loop(list, i + 1, h2, left)

(***************************************************************************)
(* G: written lines, movement mode and position bookkeeping.  The machine  *)
(* state g holds is_relative, the tracked position x, y, z, the lines      *)
(* written (out), position_history, the valve state the written valve      *)
(* commands leave the dispenser in, and for every move the position        *)
(* reached together with the valve state during the move (trace), and the  *)
(* state of the output file (fd).                                          *)
(***************************************************************************)
\* a written line: op is the command, has the axes given, x / y / z their values
Cmd(op, has, x, y, z) ==
    [op |-> op, has |-> has,
     x |-> IF "x" \in has THEN x ELSE 0,
     y |-> IF "y" \in has THEN y ELSE 0,
     z |-> IF "z" \in has THEN z ELSE 0]

write(g, cmd) == [g EXCEPT !.out = Append(@, cmd)]

\* variant: the mode is left as it is
relative_kept(g) == g

relative(g) ==
    IF ~g.is_relative
    THEN [write(g, Cmd("G91", {}, 0, 0, 0)) EXCEPT !.is_relative = TRUE]
    ELSE g

\* variant: the mode command is written whatever the mode
absolute_always(g) ==
    [write(g, Cmd("G90", {}, 0, 0, 0)) EXCEPT !.is_relative = FALSE]

absolute(g) ==
    IF g.is_relative
    THEN [write(g, Cmd("G90", {}, 0, 0, 0)) EXCEPT !.is_relative = FALSE]
    ELSE g

\* setup() without a header file: the mode command of the current mode
setup(g) ==
    write(g, Cmd(IF g.is_relative THEN "G91" ELSE "G90", {}, 0, 0, 0))

\* mode is "auto", "relative" or "absolute"
update_current_position(g, mode, has, x, y, z) ==
    LET rel == IF mode = "auto" THEN g.is_relative ELSE mode = "relative"
        nx == IF "x" \in has THEN (IF rel THEN g.x + x ELSE x) ELSE g.x
        ny == IF "y" \in has THEN (IF rel THEN g.y + y ELSE y) ELSE g.y
        nz == IF "z" \in has THEN (IF rel THEN g.z + z ELSE z) ELSE g.z
    IN  [g EXCEPT !.x = nx, !.y = ny, !.z = nz,
                  !.position_history = Append(@, << nx, ny, nz >>)]

move(g, has, x, y, z) ==
    LET g1 == update_current_position(g, "auto", has, x, y, z)
        g2 == write(g1, Cmd("G1", has, x, y, z))
    IN  [g2 EXCEPT !.trace = Append(@, [x |-> g2.x, y |-> g2.y, z |-> g2.z,
                                        on |-> g2.valve])]

\* variant: the machine is left in absolute mode
abs_move_stay(g, has, x, y, z) == move(absolute(g), has, x, y, z)

abs_move(g, has, x, y, z) ==
    IF g.is_relative
    THEN relative(move(absolute(g), has, x, y, z))
    ELSE move(g, has, x, y, z)

\* variant: the position is tracked in the current mode
set_home_auto(g, has, x, y, z) ==
    update_current_position(write(g, Cmd("G92", has, x, y, z)),
                            "auto", has, x, y, z)

set_home(g, has, x, y, z) ==
    update_current_position(write(g, Cmd("G92", has, x, y, z)),
                            "absolute", has, x, y, z)

home(g) == abs_move(g, {"x", "y"}, 0, 0, 0)

\* variant: the mode before the call is restored
rel_move_restore(g, has, x, y, z) ==
    IF g.is_relative THEN move(g, has, x, y, z)
    ELSE absolute(move(relative(g), has, x, y, z))

rel_move(g, has, x, y, z) == absolute(move(relative(g), has, x, y, z))

\* _write_out(lines=L): every line is written by the recursive call; after
\* the loop `line` is still bound to the last element, which the rest of
\* the function writes once more
RECURSIVE write_lines(_, _)
write_lines(g, lines) ==
    IF lines = << >> THEN g
    ELSE write_lines(write(g, Cmd(Head(lines), {}, 0, 0, 0)), Tail(lines))

write_out_lines(g, lines) ==
    write(write_lines(g, lines), Cmd(lines[Len(lines)], {}, 0, 0, 0))

\* _write_out(lines=[]) reads line.rstrip() with line = None: AttributeError
write_out_raises(lines) == lines = << >>

\* teardown() with an output file: the footer, when there is one, is
\* written; the file is closed under "if self.outfile is None"
teardown(g, outfile, footer) ==
    LET g1 == IF footer.given THEN write_out_lines(g, footer.lines) ELSE g
    IN  IF outfile = "none" THEN [g1 EXCEPT !.fd = "closed"] ELSE g1

teardown_raises(footer) == footer.given /\ write_out_raises(footer.lines)

\* math.ceil and math.floor of a fixed-point number
Ceil(q) == -((-q) \div Unit)

Floor(q) == q \div Unit

\* math.ceil(minor / spacing), or abs(math.floor(minor / spacing)) for a
\* negative minor
_meander_passes(minor, spacing) ==
    LET q == RoundDiv(minor * Unit, spacing)
    IN  IF minor > 0 THEN Ceil(q) ELSE Abs(Floor(q))

_meander_spacing(minor, spacing) ==
    RoundDiv(minor, _meander_passes(minor, spacing))

\* "for _ in range(passes)": a pass along the major axis, then the jog
RECURSIVE meander_loop(_, _, _, _, _, _, _)
meander_loop(g, k, sign, major, major_name, spacing, minor_name) ==
    IF k = 0 THEN g
    ELSE LET g1 == move(g, {major_name}, sign * major, sign * major, 0)
             g2 == move(g1, {minor_name}, spacing, spacing, 0)
         IN  meander_loop(g2, k - 1, -sign, major, major_name, spacing,
                          minor_name)

\* the signed dimensions after the start corner is applied
MeanderX(x, start) == IF start \in {"UR", "LR"} THEN -x ELSE x

MeanderY(y, start) == IF start \in {"UL", "UR"} THEN -y ELSE y

meander(g, x, y, spacing, start, orientation, tail) ==
    LET sx == MeanderX(x, start)
        sy == MeanderY(y, start)
        major == IF orientation = "x" THEN sx ELSE sy
        major_name == IF orientation = "x" THEN "x" ELSE "y"
        minor == IF orientation = "x" THEN sy ELSE sx
        minor_name == IF orientation = "x" THEN "y" ELSE "x"
        actual_spacing == _meander_spacing(minor, spacing)
        g1 == IF Abs(actual_spacing) # spacing
              THEN write(g, Cmd(";WARNING", {}, 0, 0, 0))
              ELSE g
        was_absolute == ~g.is_relative
        g2 == relative(g1)
        passes == _meander_passes(minor, actual_spacing)
        g3 == meander_loop(g2, passes, 1, major, major_name, actual_spacing,
                           minor_name)
        sign == IF passes % 2 = 0 THEN 1 ELSE -1
        g4 == IF ~tail THEN move(g3, {major_name}, sign * major, sign * major, 0)
              ELSE g3
    IN  IF was_absolute THEN absolute(g4) ELSE g4

(***************************************************************************)
(* Valve switching                                                         *)
(***************************************************************************)
\* variant: every counter value is a toggle
action_switch_toggle(action_counter) == "toggle"

action_switch(action_counter) ==
    IF action_counter = -1 THEN "close"
    ELSE IF action_counter = 1 THEN "open"
    ELSE "toggle"

\* the (pressure_box, action) pairs toggle_valve has a case for
ValveCases ==
    { << "Alicat", "open" >>, << "Alicat", "close" >>,
      << "Nordson", "toggle" >>,
      << "Solenoid", "open" >>, << "Solenoid", "close" >>,
      << "Solenoid2", "open" >>, << "Solenoid2", "close" >> }

\* toggle_valve writes the valve command of the case; the dispenser is on
\* after "open", off after "close", and changes phase on "toggle"
toggle_valve(g, pressure_box, action) ==
    LET g1 == write(g, Cmd(action, {}, 0, 0, 0))
    IN  [g1 EXCEPT !.valve = IF action = "open" THEN TRUE
                             ELSE IF action = "close" THEN FALSE
                             ELSE ~g.valve]

\* variant: no valve command is issued
Flip_none(g, pressure_box, action_counter) == g

\* "action_counter *= -1; action = action_switch(...); toggle_valve(...)"
Flip(g, pressure_box, action_counter) ==
    toggle_valve(g, pressure_box, action_switch(-action_counter))

(***************************************************************************)
(* Inputs: vertex lists as read from the STL file, and configurations      *)
(***************************************************************************)
MaxLayers == 2
MaxRuns == 2
MaxScans == 60

Pt(x, y) == << x * Unit, y * Unit >>

\* two triangles of the square [(0,0),(10,0),(10,10),(0,10)]
Square10 ==
    << Pt(0, 0), Pt(10, 0), Pt(10, 10), Pt(0, 0), Pt(10, 10), Pt(0, 10) >>

Diamond == << Pt(0, -2), Pt(2, 0), Pt(0, 2), Pt(-2, 0) >>

Chevron == << Pt(3, 0), Pt(-3, 3), Pt(-1, 0), Pt(-3, -3) >>

Rect == << Pt(-2, -1), Pt(2, -1), Pt(2, 1), Pt(-2, -1), Pt(2, 1), Pt(-2, 1) >>

\* a bar with vertices on the symmetry axis x = 0
Bar ==
    << Pt(-2, -1), Pt(0, -1), Pt(0, 1), Pt(-2, 1), Pt(2, -1), Pt(2, 1) >>

\* a narrow strip, one unit wide, given in fixed-point units
Strip ==
    << << -500, -1000 >>, << 500, -1000 >>, << 500, 1000 >>,
       << -500, 1000 >> >>

\* a collapsed triangle: two distinct points only
Sliver == << Pt(-1, 0), Pt(1, 0), Pt(1, 0) >>

\* a right triangle whose hypotenuse has slope 1 and whose vertical side
\* lies on x = 1, both spanning the y-range [-1, 1]
Wedge == << Pt(-1, -1), Pt(1, -1), Pt(1, 1) >>

Boxes == { "Nordson", "Alicat", "Solenoid" }

\* num_layers = 0 stands for None: the count is derived from z_height
LayerChoices == 0..MaxLayers

Config(alg, align, pts, nozzle, box, layers, xs) ==
    [alg |-> alg, align |-> align, pts |-> pts, z_height |-> 2 * nozzle,
     nozzle_size |-> nozzle, spacing |-> Unit, pressure_box |-> box,
     num_layers |-> layers, xs |-> xs, ys |-> xs, is_circle |-> FALSE]

Configs ==
    { Config(1, "t", Square10, 200, box, 1, 0) : box \in Boxes }
    \cup { Config(alg, align, pts, Unit, box, layers, 0) :
             alg \in {1, 2}, align \in {"t", "l"},
             pts \in {Diamond, Chevron, Rect}, box \in Boxes,
             layers \in LayerChoices }
    \cup { Config(4, align, pts, Unit, box, layers, 0) :
             align \in {"t", "l"}, pts \in {Diamond, Rect, Bar},
             box \in Boxes, layers \in LayerChoices }
    \cup { Config(alg, "l", pts, Unit, "Alicat", 1, Unit) :
             alg \in {2, 4}, pts \in {Diamond, Chevron, Rect} }
    \cup { Config(alg, "t", Strip, nozzle, "Alicat", 1, 0) :
             alg \in {1, 4}, nozzle \in {40, 60, 200} }
    \cup { Config(1, align, Sliver, Unit, "Alicat", 1, 0) :
             align \in {"t", "l"} }
    \cup { Config(alg, "l", Wedge, Unit, "Alicat", 1, 0) : alg \in {1, 2} }

\* which routine of slicer() a configuration selects, by its differences
RoundsScan(c) == c.alg = 4

SetsHome(c) == c.alg = 1 \/ (c.alg = 2 /\ c.align = "t")

UsesOffset(c) == c.align = "l" /\ c.alg \in {2, 4}

CountsToggles(c) == ~(c.alg = 1 /\ c.align = "l")

Homes(c) == ~(c.alg = 4 /\ c.align = "l")

\* nozzle_size * spacing
Pitch(c) == RoundDiv(c.nozzle_size * c.spacing, Unit)

(***************************************************************************)
(* State                                                                   *)
(***************************************************************************)
VARIABLES
    cfg,            \* constructor arguments and the STL vertices
    pc,             \* position in the routine
    run,            \* number of the slicer() call on this object
    first_out,      \* lines written by the first slicer() call
    run_start,      \* Len(g.out) when the current slicer() call started
    num_layers,     \* self.num_layers (0: None)
    g,              \* the G machine state
    coords,         \* coords_list2 / coords_list_no_dup / coords_sorted
    coord, others, in_order,    \* nearest-neighbor chain
    line_dict,
    start,          \* lowest_coord / highest_coord
    n, curr_x, curr_y, direction, action_counter,
    possible,       \* possible_y / possible_x, sorted
    i,              \* index into possible (1-based)
    scans,          \* scanlines completed in this layer
    seconds,        \* accumulated distance: seconds * print_speed
    togg_counter,
    told,           \* arguments of tell_time
    calls           \* calls made on the object from outside the fill routines

vars == << cfg, pc, run, first_out, run_start, num_layers, g, coords, coord,
           others, in_order, line_dict, start, n, curr_x, curr_y, direction,
           action_counter, possible, i, scans, seconds, togg_counter, told,
           calls >>

build_vars == << coords, coord, others, in_order, line_dict, start >>

fill_vars == << n, curr_x, curr_y, direction, action_counter, possible, i,
                scans, seconds, togg_counter >>

NoPoint == << 0, 0 >>

\* G.__init__ / Slicer.__init__: relative mode, position 0, setup() writes G91
InitG ==
    [is_relative |-> TRUE, x |-> 0, y |-> 0, z |-> 0,
     out |-> << Cmd("G91", {}, 0, 0, 0) >>,
     position_history |-> << << 0, 0, 0 >> >>,
     valve |-> FALSE, trace |-> << >>, fd |-> "open"]

Init ==
    /\ cfg \in Configs
    /\ pc = "load"
    /\ run = 1
    /\ first_out = << >>
    /\ run_start = 1
    /\ num_layers = cfg.num_layers
    /\ g = InitG
    /\ coords = << >>
    /\ coord = NoPoint
    /\ others = << >>
    /\ in_order = << >>
    /\ line_dict = EmptyDict
    /\ start = NoPoint
    /\ n = 0
    /\ curr_x = 0
    /\ curr_y = 0
    /\ direction = 1
    /\ action_counter = 0
    /\ possible = << >>
    /\ i = 1
    /\ scans = 0
    /\ seconds = 0
    /\ togg_counter = 0
    /\ told = [done |-> FALSE, seconds |-> 0, togg_counter |-> 0]
    /\ calls = << >>

(***************************************************************************)
(* Boundary construction                                                   *)
(***************************************************************************)
\* the start of a routine, up to the first iteration of the chain loop
Load ==
    /\ pc = "load"
    /\ num_layers' = IF num_layers = 0
                     THEN RoundDiv(cfg.z_height, Pitch(cfg))
                     ELSE num_layers
    /\ LET sorted == SortBy(cfg.pts, "point")
           list2 == Dedup(sorted, << >>)
           polar == SortBy(DedupPolar(sorted, << >>, cfg.is_circle), "theta")
           no_dup == DedupLeft(cfg.pts, << >>)
           by_x == SortBy(no_dup, "x")
           starting_ind == starting_loop(by_x, 1, 1)
       IN  CASE cfg.alg = 1 ->
                  /\ coords' = list2
                  /\ coord' = << Round10(list2[1][1]), Round10(list2[1][2]) >>
                  /\ others' = DeleteAt(list2, 1)
                  /\ in_order' = << coord' >>
                  /\ pc' = "chain"
             [] cfg.alg = 4 ->
                  /\ coords' = no_dup
                  /\ coord' = by_x[starting_ind]
                  /\ others' = DeleteAt(by_x, starting_ind)
                  /\ in_order' = << coord' >>
                  /\ pc' = "chain"
             [] cfg.alg = 2 ->
                  /\ coords' = polar
                  /\ coord' = NoPoint
                  /\ others' = << >>
                  /\ in_order' = polar
                  /\ pc' = "index"
    /\ UNCHANGED << calls, cfg, run, first_out, run_start, g, line_dict, start,
                    fill_vars, told >>

\* one iteration of "while True: ... find_closest ..."
ChainStep ==
    /\ pc = "chain"
    /\ others # << >>
    /\ LET closest == find_closest(coord, others)
           next == IF cfg.alg = 1
                   THEN << Round10(others[closest][1]),
                           Round10(others[closest][2]) >>
                   ELSE others[closest]
       IN  /\ coord' = next
           /\ in_order' = Append(in_order, next)
           /\ others' = DeleteAt(others, closest)
    /\ UNCHANGED << calls, cfg, pc, run, first_out, run_start, num_layers, g, coords,
                    line_dict, start, fill_vars, told >>

\* the ordered boundary whose edges are inserted
Boundary ==
    IF cfg.alg = 4
    THEN LET k == starting_coord_loop(in_order, 1, in_order[1][1], 1)
             left == IF cfg.is_circle
                     THEN SubSeq(in_order, 1, Len(in_order) - 1)
                     ELSE in_order
         IN  Rotate(left, k)
    ELSE IF cfg.alg = 1 /\ cfg.is_circle
         THEN SubSeq(in_order, 1, Len(in_order) - 1)
         ELSE in_order

BoundaryEdges ==
    IF cfg.alg = 4 THEN EdgesMirror(Boundary) ELSE EdgesClosed(Boundary)

StartVertex ==
    IF cfg.align = "t"
    THEN lowest_loop(coords, 1, coords[1], cfg.alg = 4)
    ELSE highest_loop(coords, 1, coords[1], cfg.alg = 4)

\* line_dict is filled, set_home(0, 0) where the routine calls it, the
\* counters are cleared and the start vertex is chosen
BuildIndex ==
    /\ \/ pc = "index"
       \/ pc = "chain" /\ others = << >>
    /\ IF cfg.align = "l" /\ EdgesRaise(EmptyDict, BoundaryEdges)
       THEN /\ pc' = "error"
            /\ UNCHANGED << line_dict, g, start >>
       ELSE /\ line_dict' = InsertEdges(EmptyDict, BoundaryEdges, cfg.align)
            /\ g' = IF SetsHome(cfg) THEN set_home(g, {"x", "y"}, 0, 0, 0)
                    ELSE g
            /\ start' = StartVertex
            /\ pc' = IF num_layers > 0 THEN "layer" ELSE "finish"
    /\ n' = 0
    /\ seconds' = 0
    /\ togg_counter' = 0
    /\ UNCHANGED << calls, cfg, run, first_out, run_start, num_layers, coords, coord,
                    others, in_order, curr_x, curr_y, direction,
                    action_counter, possible, i, scans, told >>

(***************************************************************************)
(* Scanline fill                                                           *)
(***************************************************************************)
Xs == IF UsesOffset(cfg) THEN cfg.xs ELSE 0

Ys == IF UsesOffset(cfg) THEN cfg.ys ELSE 0

\* variant: the direction left by the previous scanline is kept
LayerDirection_kept(previous) == previous

\* "direction = 1" at the top of every layer, whatever it was before
LayerDirection(previous) == 1

\* top of "for n in range(self.num_layers)": Z step, travel to the start
\* vertex, initial action_counter
LayerStart ==
    /\ pc = "layer"
    /\ curr_x' = start[1]
    /\ curr_y' = start[2]
    /\ direction' = LayerDirection(direction)
    /\ LET g1 == IF n # 0
                 THEN move(relative(g), {"z"}, 0, 0, Pitch(cfg))
                 ELSE g
       IN  g' = abs_move(g1, {"x", "y"}, start[1] + Xs, start[2] + Ys, 0)
    /\ action_counter' = IF cfg.pressure_box = "Nordson" THEN 2 ELSE -1
    /\ possible' = << >>
    /\ i' = 1
    /\ scans' = 0
    /\ pc' = "scan"
    /\ UNCHANGED << calls, cfg, run, first_out, run_start, num_layers, build_vars, n,
                    seconds, togg_counter, told >>

\* the scan coordinate: x in the tangential routines, y in the longitudinal
Curr == IF cfg.align = "t" THEN curr_x ELSE curr_y

\* variant: the upper end of a range key is excluded
InRange_open(s, key) == s >= key[1] /\ s < key[2]

\* "if curr_x >= key[0] and curr_x <= key[1]"
InRange(s, key) == s >= key[1] /\ s <= key[2]

\* the keys of line_dict whose lists are appended to possible_lines
Matching(ld, s) == { key \in DOMAIN ld : InRange(s, key) }

\* y = m * curr_x + b
EvalY(l, s) == RoundDiv(l[1] * s, Unit) + l[2]

\* x = (curr_y - b) / m; l2 rounds the result to 9 decimals
EvalX(l, s) ==
    LET x == IF Len(l) = 1 THEN l[1] ELSE RoundDiv((s - l[2]) * Unit, l[1])
    IN  IF cfg.alg = 2 THEN Round9(x) ELSE x

\* the distinct ordinates of the matched lines
Ordinates(ld, s) ==
    IF cfg.align = "t"
    THEN { EvalY(ld[key][j], s) :
             << key, j >> \in { kj \in Matching(ld, s) \X (1..8) :
                                  kj[2] <= Len(ld[kj[1]]) } }
    ELSE { EvalX(ld[key][j], s) :
             << key, j >> \in { kj \in Matching(ld, s) \X (1..8) :
                                  /\ kj[2] <= Len(ld[kj[1]])
                                  /\ \/ Len(ld[kj[1]][kj[2]]) = 1
                                     \/ ld[kj[1]][kj[2]][1] # 0 } }

RECURSIVE SetToSeq(_)
SetToSeq(S) ==
    IF S = {} THEN << >>
    ELSE LET e == CHOOSE v \in S : \A w \in S : v <= w
         IN  << e >> \o SetToSeq(S \ {e})

\* variant: always sorted ascending
SortPossible_asc(S, dir) == SortBy(SetToSeq(S), "asc")

\* possible_y.sort(reverse = (direction == -1))
SortPossible(S, dir) ==
    IF dir = -1 THEN SortBy(SetToSeq(S), "desc") ELSE SortBy(SetToSeq(S), "asc")

\* variant: the scan coordinate stays where it is
Advanced_still(s) == s

\* "curr_x += inc_x" / "curr_y -= inc_y"
Advanced(s) == IF cfg.align = "t" THEN s + Pitch(cfg) ELSE s - Pitch(cfg)

\* top of "while True": entry flip, rounding of the scan coordinate, query
ScanQuery ==
    /\ pc = "scan"
    /\ scans < MaxScans
    /\ LET entry == Curr = (IF cfg.align = "t" THEN start[1] ELSE start[2])
           s == IF RoundsScan(cfg) THEN Round5(Curr) ELSE Curr
           found == Matching(line_dict, s)
           sorted == SortPossible(Ordinates(line_dict, s), direction)
       IN  /\ g' = IF entry THEN Flip(g, cfg.pressure_box, action_counter)
                   ELSE g
           /\ action_counter' = IF entry THEN -action_counter
                                ELSE action_counter
           /\ togg_counter' = IF entry THEN togg_counter + 1 ELSE togg_counter
           /\ IF found = {}
              THEN /\ pc' = "layer_end"
                   /\ curr_x' = IF cfg.align = "t" THEN s ELSE curr_x
                   /\ curr_y' = IF cfg.align = "l" THEN s ELSE curr_y
                   /\ UNCHANGED << possible, i, direction, scans >>
              ELSE IF sorted = << >>
              THEN /\ pc' = "scan"
                   /\ curr_x' = IF cfg.align = "t" THEN Advanced(s) ELSE curr_x
                   /\ curr_y' = IF cfg.align = "l" THEN Advanced(s) ELSE curr_y
                   /\ direction' = -direction
                   /\ scans' = scans + 1
                   /\ UNCHANGED << possible, i >>
              ELSE /\ pc' = "emit"
                   /\ curr_x' = IF cfg.align = "t" THEN s ELSE curr_x
                   /\ curr_y' = IF cfg.align = "l" THEN s ELSE curr_y
                   /\ possible' = sorted
                   /\ i' = 1
                   /\ UNCHANGED << direction, scans >>
    /\ UNCHANGED << calls, cfg, run, first_out, run_start, num_layers, build_vars, n,
                    seconds, told >>

\* one iteration of "for i in range(len(possible_y))"; after the last one
\* the scan coordinate advances and the direction flips
EmitMove ==
    /\ pc = "emit"
    /\ LET target == possible[i]
           prev == IF cfg.align = "t" THEN curr_y
                   ELSE IF cfg.alg = 4 THEN curr_x + Xs ELSE curr_x
           dist == Abs(prev - target)
           nx == IF cfg.align = "t" THEN curr_x ELSE target
           ny == IF cfg.align = "t" THEN target ELSE curr_y
           g1 == move(absolute(g), {"x", "y"}, nx + Xs, ny + Ys, 0)
           interior == i # 1 /\ i # Len(possible)
           last == i = Len(possible)
       IN  /\ g' = IF interior THEN Flip(g1, cfg.pressure_box, action_counter)
                   ELSE g1
           /\ action_counter' = IF interior THEN -action_counter
                                ELSE action_counter
           /\ togg_counter' = IF interior /\ CountsToggles(cfg)
                              THEN togg_counter + 1 ELSE togg_counter
           /\ seconds' = seconds + dist
           /\ curr_x' = IF last /\ cfg.align = "t" THEN Advanced(nx) ELSE nx
           /\ curr_y' = IF last /\ cfg.align = "l" THEN Advanced(ny) ELSE ny
           /\ direction' = IF last THEN -direction ELSE direction
           /\ scans' = IF last THEN scans + 1 ELSE scans
           /\ i' = IF last THEN 1 ELSE i + 1
           /\ pc' = IF last THEN "scan" ELSE "emit"
    /\ UNCHANGED << calls, cfg, run, first_out, run_start, num_layers, build_vars, n,
                    possible, told >>

\* after the scan loop breaks: the final flip of the layer
LayerEnd ==
    /\ pc = "layer_end"
    /\ g' = Flip(g, cfg.pressure_box, action_counter)
    /\ action_counter' = -action_counter
    /\ togg_counter' = IF CountsToggles(cfg) THEN togg_counter + 1
                       ELSE togg_counter
    /\ n' = n + 1
    /\ pc' = IF n + 1 < num_layers THEN "layer" ELSE "finish"
    /\ UNCHANGED << calls, cfg, run, first_out, run_start, num_layers, build_vars,
                    curr_x, curr_y, direction, possible, i, scans, seconds,
                    told >>

\* tell_time(seconds, togg_counter), then the closing moves of the routine
Finish ==
    /\ pc = "finish"
    /\ told' = [done |-> TRUE, seconds |-> seconds,
                togg_counter |-> togg_counter]
    /\ LET g1 == IF cfg.alg = 2 /\ cfg.align = "l"
                 THEN abs_move(g, {"z"}, 0, 0, -80 * Unit)
                 ELSE g
       IN  g' = IF Homes(cfg) THEN home(g1) ELSE g1
    /\ pc' = "done"
    /\ UNCHANGED << calls, cfg, run, first_out, run_start, num_layers, build_vars,
                    fill_vars >>

\* slicer() is called again on the same object
Rerun ==
    /\ pc = "done"
    /\ run < MaxRuns
    /\ run' = run + 1
    /\ first_out' = IF run = 1 THEN SubSeq(g.out, run_start + 1, Len(g.out))
                    ELSE first_out
    /\ run_start' = Len(g.out)
    /\ told' = [done |-> FALSE, seconds |-> 0, togg_counter |-> 0]
    /\ pc' = "load"
    /\ UNCHANGED << calls, cfg, num_layers, g, build_vars, fill_vars >>

Next ==
    \/ Load
    \/ ChainStep
    \/ BuildIndex
    \/ LayerStart
    \/ ScanQuery
    \/ EmitMove
    \/ LayerEnd
    \/ Finish
    \/ Rerun

Spec == Init /\ [][Next]_vars

(***************************************************************************)
(* Vocabulary of the properties                                            *)
(***************************************************************************)
\* the routine has built line_dict and is filling (or has filled) layers
Filling == pc \in {"layer", "scan", "emit", "layer_end", "finish", "done"}

\* the layer that just ran has made its final flip
LayerDone == pc \in {"layer", "finish"} /\ n > 0

ValveOps == {"open", "close", "toggle"}

IsValveCmd(c) == c.op \in ValveOps

IsModeCmd(c) == c.op \in {"G90", "G91"}

IsOtherCmd(c) == ~IsModeCmd(c)

\* lines written by the current slicer() call
RunOut == SubSeq(g.out, run_start + 1, Len(g.out))

ValveCmds == SelectSeq(RunOut, IsValveCmd)

\* the closed polygon whose edges were inserted
Polygon == IF cfg.alg = 4 THEN Boundary \o Mirror(Boundary) ELSE Boundary

Cross(o, a, b) ==
    (a[1] - o[1]) * (b[2] - o[2]) - (a[2] - o[2]) * (b[1] - o[1])

Between(a, v, b) == (a <= v /\ v <= b) \/ (b <= v /\ v <= a)

OnSegment(p, a, b) ==
    Cross(a, b, p) = 0 /\ Between(a[1], p[1], b[1]) /\ Between(a[2], p[2], b[2])

\* the closed segments a-b and c-d have a common point
SegmentsMeet(a, b, c, d) ==
    \/ /\ Sgn(Cross(a, b, c)) * Sgn(Cross(a, b, d)) < 0
       /\ Sgn(Cross(c, d, a)) * Sgn(Cross(c, d, b)) < 0
    \/ OnSegment(c, a, b)
    \/ OnSegment(d, a, b)
    \/ OnSegment(a, c, d)
    \/ OnSegment(b, c, d)

Succ(poly, k) == IF k = Len(poly) THEN 1 ELSE k + 1

\* simple polygon: at least 3 distinct vertices, consecutive edges meet only
\* in their common vertex, other edges not at all
IsSimple(poly) ==
    /\ Len(poly) >= 3
    /\ \A j, k \in 1..Len(poly) : j # k => poly[j] # poly[k]
    /\ \A j, k \in 1..Len(poly) :
         j < k =>
           LET a == poly[j]
               b == poly[Succ(poly, j)]
               c == poly[k]
               d == poly[Succ(poly, k)]
           IN  IF Succ(poly, j) = k
               THEN ~OnSegment(a, c, d) /\ ~OnSegment(d, a, b)
               ELSE IF Succ(poly, k) = j
               THEN ~OnSegment(b, c, d) /\ ~OnSegment(c, a, b)
               ELSE ~SegmentsMeet(a, b, c, d)

Axis == IF cfg.align = "t" THEN 1 ELSE 2

\* the scan coordinate lies strictly between the polygon's extremes
StrictlyInside(poly, s) ==
    /\ \E k \in 1..Len(poly) : poly[k][Axis] < s
    /\ \E k \in 1..Len(poly) : poly[k][Axis] > s

Ascending(s) == \A j \in 1..(Len(s) - 1) : s[j] < s[j + 1]

Descending(s) == \A j \in 1..(Len(s) - 1) : s[j] > s[j + 1]

(***************************************************************************)
(* Properties                                                              *)
(***************************************************************************)
\* C1: in every fill routine, for any boundary and any layer, the dispenser
\* is off once the layer is done: the last valve command of the layer is
\* "close" (Alicat / Solenoid) and the Nordson valve is back in its off
\* phase.
C1_ValveOffAtLayerDone ==
    LayerDone =>
        /\ ~g.valve
        /\ cfg.pressure_box # "Nordson" =>
             ValveCmds[Len(ValveCmds)].op = "close"

\* C2: for a simple closed polygon inserted edge by edge and a scan
\* coordinate strictly between its extremes along the scan axis, the query
\* yields an even number of distinct ordinates.
C2_EvenCrossings ==
    (pc = "emit" /\ IsSimple(Polygon) /\ StrictlyInside(Polygon, Curr)) =>
        Len(possible) % 2 = 0

\* C3: within a layer the emitted crossings of consecutive scanlines
\* alternate: ascending on the first scanline of every layer, descending on
\* the next, and so on until the layer is done.
C3_Alternation ==
    /\ pc = "emit" =>
         IF scans % 2 = 0 THEN Ascending(possible) /\ direction = 1
         ELSE Descending(possible) /\ direction = -1
    /\ (pc = "scan" /\ scans = 0) => direction = 1

C3_Witness ==
    pc = "emit" /\ n = 1 /\ scans = 3 /\ Len(possible) >= 2 /\ i = 2

\* extent of the key ranges of line_dict along the scan axis
Extent ==
    IF DOMAIN line_dict = {} THEN 0
    ELSE LET lo == CHOOSE v \in { k[1] : k \in DOMAIN line_dict } :
                       \A k \in DOMAIN line_dict : v <= k[1]
             hi == CHOOSE v \in { k[2] : k \in DOMAIN line_dict } :
                       \A k \in DOMAIN line_dict : v >= k[2]
         IN  hi - lo

\* C4: for any boundary and any pitch > 0 the scan loop of a layer makes
\* finitely many scanlines - no more than fit between the ends of the key
\* ranges at one pitch apart - before it reaches Done.
C4_FinitelyManyScanlines ==
    Filling => scans * Pitch(cfg) <= Extent + Pitch(cfg)

\* the unit-square scenario: [(0,0),(10,0),(10,10),(0,10)], pitch 0.2, one
\* layer, tangential fill by t1
UnitSquare ==
    /\ cfg.pts = Square10
    /\ cfg.alg = 1
    /\ cfg.align = "t"
    /\ Pitch(cfg) = Unit \div 5
    /\ num_layers = 1

\* C5 (as claimed): the unit-square scenario produces 50 scanlines.
C5_FiftyScanlines ==
    (UnitSquare /\ pc = "layer_end") => scans = 50

\* C5 (amended): the unit-square scenario produces 51 scanlines, at
\* x = 0.0, 0.2, ..., 10.0 (the range keys include their upper end), each
\* with exactly the two crossings y = 0 and y = 10 in alternating order; the
\* dispenser is switched on once, at x = 0, and off once, after the last
\* stroke.
C5_UnitSquare ==
    UnitSquare =>
        /\ pc \in {"scan", "emit"} =>
             /\ curr_x = scans * Pitch(cfg)
             /\ scans <= 51
        /\ pc = "emit" =>
             /\ scans <= 50
             /\ possible = IF scans % 2 = 0 THEN << 0, 10 * Unit >>
                           ELSE << 10 * Unit, 0 >>
             /\ Len(ValveCmds) = 1
             /\ g.valve
        /\ (pc = "scan" /\ scans = 0) => (ValveCmds = << >> /\ curr_x = 0)
        /\ pc = "layer_end" => scans = 51
        /\ pc \in {"finish", "done"} =>
             /\ Len(ValveCmds) = 2
             /\ ~g.valve
             /\ cfg.pressure_box # "Nordson" =>
                  (ValveCmds[1].op = "open" /\ ValveCmds[2].op = "close")

C5_Witness ==
    UnitSquare /\ pc = "done" /\ scans = 51 /\ Len(ValveCmds) = 2

Range(s) == { s[j] : j \in 1..Len(s) }

NoRepeat(s) == \A j, k \in 1..Len(s) : j # k => s[j] # s[k]

\* squared Euclidean distance
Dist2(p, q) ==
    (p[1] - q[1]) * (p[1] - q[1]) + (p[2] - q[2]) * (p[2] - q[2])

\* while the chain is built: visited and unvisited points together are the
\* de-duplicated input, the chain starts at the seed, and every chained point
\* was a closest one among the points not yet visited before it
ChainState ==
    pc = "chain" =>
        /\ NoRepeat(in_order \o others)
        /\ Range(in_order \o others) = Range(cfg.pts) \cap Range(coords)
        /\ Range(coords) = Range(in_order \o others)
        /\ in_order # << >>
        /\ coord = in_order[Len(in_order)]
        /\ cfg.alg = 1 => in_order[1] = coords[1]
        /\ \A k \in 2..Len(in_order) :
             \A q \in Range(others)
                        \cup { in_order[j] : j \in (k + 1)..Len(in_order) } :
                 Dist2(in_order[k - 1], in_order[k]) <= Dist2(in_order[k - 1], q)

\* one chain step appends the unvisited point of lowest index among those
\* closest to the current point, and removes it from the unvisited ones
ChainChoice ==
    ChainStep =>
        \E c \in 1..Len(others) :
            /\ in_order' = Append(in_order, others[c])
            /\ others' = DeleteAt(others, c)
            /\ \A j \in 1..Len(others) :
                 /\ Dist2(coord, others[j]) >= Dist2(coord, others[c])
                 /\ j < c => Dist2(coord, others[j]) > Dist2(coord, others[c])

\* C6: nearest-neighbor chaining returns a permutation of the de-duplicated
\* input that starts at the seed; no point is visited twice or omitted, each
\* appended point is at minimum distance from the current point among the
\* unvisited ones, and among several closest the lowest index is taken.
C6_NearestNeighborChain ==
    [] ChainState /\ [][ChainChoice]_vars

C6_Witness ==
    /\ pc = "chain"
    /\ cfg.pts = Square10
    /\ others = << >>
    /\ in_order = << Pt(0, 0), Pt(0, 10), Pt(10, 10), Pt(10, 0) >>

\* C7: every edge inserted into line_dict joins two distinct points,
\* the closing edge and the stitching edges of the mirror strategy included.
C7_NonDegenerateEdges ==
    Filling => \A k \in 1..Len(BoundaryEdges) :
                   BoundaryEdges[k][1] # BoundaryEdges[k][2]

\* length of the moves of a trace that were made with the dispenser on
RECURSIVE DispensedLength(_, _)
DispensedLength(tr, k) ==
    IF k < 2 THEN 0
    ELSE DispensedLength(tr, k - 1)
         + (IF tr[k].on
            THEN calc_dist(tr[k - 1].x, tr[k - 1].y, tr[k].x, tr[k].y)
            ELSE 0)

\* C8: at the end of a fill run the distance total handed to tell_time equals
\* the summed Euclidean length of the moves made with the dispenser on.
C8_DistanceIsPathLength ==
    (pc = "done" /\ run = 1) =>
        told.seconds = DispensedLength(g.trace, Len(g.trace))

\* C9: the toggle count handed to tell_time equals the number of valve
\* commands written during the run.
C9_ToggleCount ==
    pc = "done" => told.togg_counter = Len(ValveCmds)

\* C10 (as claimed): a second slicer() call on the same object writes the
\* same lines as the first.
C10_SameOutput ==
    (pc = "done" /\ run = 2) => RunOut = first_out

\* C10 (amended): a second slicer() call on the same object writes the same
\* moves, set_home and valve lines, in the same order, as the first; only the
\* G90 / G91 lines differ, because the first call starts in relative mode and
\* leaves the object in absolute mode.
C10_SameCommands ==
    (pc = "done" /\ run = 2) =>
        SelectSeq(RunOut, IsOtherCmd) = SelectSeq(first_out, IsOtherCmd)

C10_Witness ==
    /\ pc = "done"
    /\ run = 2
    /\ num_layers = 2
    /\ RunOut # first_out
    /\ Len(SelectSeq(RunOut, IsValveCmd)) >= 4


(***************************************************************************)
(* C11: a malformed boundary aborts before any command is emitted          *)
(***************************************************************************)
\* the distinct vertices of the input
DistinctPoints == { cfg.pts[k] : k \in DOMAIN cfg.pts }

Malformed == Cardinality(DistinctPoints) < 3

\* C11: when the boundary has fewer than 3 distinct points the routine
\* writes no command at all (no set_home, no move, no valve command) and
\* leaves the tracked position and the movement mode as they were
C11_MalformedAborts ==
    Malformed =>
        /\ RunOut = << >>
        /\ g.is_relative = InitG.is_relative
        /\ << g.x, g.y, g.z >> = << InitG.x, InitG.y, InitG.z >>
        /\ g.position_history = InitG.position_history


(***************************************************************************)
(* C12: vertical edges in the longitudinal index                           *)
(***************************************************************************)
\* the boundary edges with two distinct endpoints of equal x
VerticalEdges ==
    { e \in Range(BoundaryEdges) : e[1][1] = e[2][1] /\ e[1] # e[2] }

\* the index has been built, or building it has failed
Built == pc \notin {"load", "chain", "index"}

\* C12: in a longitudinal routine every vertical boundary edge is stored as
\* the one-element entry <<x>> under its y-range, and a scanline inside
\* that range takes every matched one-element entry's x as a crossing
C12_VerticalEntries ==
    (cfg.align = "l" /\ Built) =>
        /\ \A e \in VerticalEdges :
              /\ RangeY(e[1], e[2]) \in DOMAIN line_dict
              /\ SeqContains(line_dict[RangeY(e[1], e[2])],
                             << Round9(e[1][1]) >>)
        /\ pc = "emit" =>
              \A key \in Matching(line_dict, Curr) :
                  \A j \in 1..Len(line_dict[key]) :
                      Len(line_dict[key][j]) = 1 =>
                          EvalX(line_dict[key][j], Curr) \in Range(possible)


(***************************************************************************)
(* C16: moves and toggles within one scanline                              *)
(***************************************************************************)
\* the commands a step appends to the output
Added(before, after) == SubSeq(after.out, Len(before.out) + 1, Len(after.out))

IsMoveCmd(c) == c.op = "G1"

\* one iteration of the loop over the sorted ordinates: exactly one move,
\* to the ordinate at the loop index on the current scan coordinate, and a
\* valve command right after it exactly at the indices that are neither
\* the first nor the last
ScanlineStep ==
    pc = "emit" =>
        LET added == Added(g, g')
            moves == SelectSeq(added, IsMoveCmd)
            valves == SelectSeq(added, IsValveCmd)
            k == Len(possible)
            target == IF cfg.align = "t" THEN moves[1].y - Ys
                      ELSE moves[1].x - Xs
        IN  /\ Len(moves) = 1
            /\ target = possible[i]
            /\ Len(valves) = (IF i > 1 /\ i < k THEN 1 ELSE 0)
            /\ Len(valves) = 1 =>
                  /\ IsValveCmd(added[Len(added)])
                  /\ IsMoveCmd(added[Len(added) - 1])
            /\ possible' = possible
            /\ i' = (IF i = k THEN 1 ELSE i + 1)
            /\ pc' = (IF i = k THEN "scan" ELSE "emit")

\* C16: a scanline with k ordinates emits one move per ordinate, in the
\* order of the sorted list, and max(k - 2, 0) valve commands: one right
\* after the move to each ordinate that is neither the first nor the last
C16_ScanlineToggles == [][ScanlineStep]_vars

\* a scanline of four ordinates whose second move has just been followed by
\* its valve command
C16_Witness ==
    /\ pc = "emit"
    /\ Len(possible) >= 4
    /\ i = 3
    /\ IsValveCmd(g.out[Len(g.out)])
    /\ IsMoveCmd(g.out[Len(g.out) - 1])


(***************************************************************************)
(* C17: the entry flip                                                     *)
(***************************************************************************)
\* the top of one iteration of the scan loop: on the first iteration of a
\* layer exactly one valve command is written, the last move before it being
\* the travel to the start vertex; on every later iteration nothing is
\* written
EntryStep ==
    pc = "scan" =>
        IF scans = 0
        THEN /\ Len(Added(g, g')) = 1
             /\ IsValveCmd(Added(g, g')[1])
             /\ g.trace # << >>
             /\ LET travel == g.trace[Len(g.trace)]
                IN  << travel.x, travel.y >> =
                        << start[1] + Xs, start[2] + Ys >>
             /\ g'.trace = g.trace
        ELSE g'.out = g.out

\* C17: in each layer the entry flip is issued exactly once, on the first
\* iteration of the scan loop, after the travel to the start vertex and
\* before any move of the fill; no later scanline issues it
C17_EntryFlipOnce == [][EntryStep]_vars

\* the third scanline of the first layer is about to start and the entry
\* flip is the only valve command written so far
C17_Witness ==
    /\ pc = "scan"
    /\ run = 1
    /\ n = 0
    /\ scans >= 2
    /\ Len(ValveCmds) = 1


(***************************************************************************)
(* C18, C19: what a scanline query collects, and what insert keeps         *)
(***************************************************************************)
\* the index that holds one edge only: what insert computes for the edge
EdgeIndex(e) ==
    IF cfg.align = "t" THEN add_equ_y_equals(EmptyDict, e[1], e[2])
    ELSE add_equ_x_equals(EmptyDict, e[1], e[2])

EdgeKey(e) == CHOOSE key \in DOMAIN EdgeIndex(e) : TRUE

EdgeLine(e) == EdgeIndex(e)[EdgeKey(e)][1]

\* insert computes an equation for the edge
HasLine(e) == DOMAIN EdgeIndex(e) # {}

\* the scan coordinate lies between the edge's endpoint coordinates along
\* the scan axis, both ends included
InSpan(e, s) ==
    LET a == e[1][Axis]
        b == e[2][Axis]
    IN  (IF a < b THEN a ELSE b) <= s /\ s <= (IF a < b THEN b ELSE a)

\* the boundary edges with two distinct endpoints
ProperEdges == { e \in Range(BoundaryEdges) : e[1] # e[2] }

\* the equations appended to possible_lines at scan coordinate s
Collected(s) == UNION { Range(line_dict[key]) : key \in Matching(line_dict, s) }

\* the scan loop has just queried the index at Curr
Queried == pc \in {"emit", "layer_end"}

\* C18: the query at s collects the equation of every inserted edge whose
\* span contains s, and every collected equation is the equation of such
\* an edge
C18_QueryCollectsSpan ==
    Queried =>
        /\ \A e \in ProperEdges :
              InSpan(e, Curr) => HasLine(e) /\ EdgeLine(e) \in Collected(Curr)
        /\ \A l \in Collected(Curr) :
              \E e \in Range(BoundaryEdges) :
                  InSpan(e, Curr) /\ HasLine(e) /\ EdgeLine(e) = l

\* the edge's equation is stored under the edge's range key
Kept(e) ==
    /\ HasLine(e)
    /\ EdgeKey(e) \in DOMAIN line_dict
    /\ EdgeLine(e) \in Range(line_dict[EdgeKey(e)])

\* the scanline at Curr has a crossing computed from the edge's equation
Crosses(e) ==
    /\ HasLine(e)
    /\ IF cfg.align = "t" THEN EvalY(EdgeLine(e), Curr) \in Range(possible)
       ELSE /\ Len(EdgeLine(e)) = 1 \/ EdgeLine(e)[1] # 0
            /\ EvalX(EdgeLine(e), Curr) \in Range(possible)

\* C19: insert drops no edge: every boundary edge with distinct endpoints
\* has its entry in the index, and a scanline inside the edge's span has a
\* crossing from it
C19_NoEdgeDropped ==
    Filling =>
        \A e \in ProperEdges :
            /\ Kept(e)
            /\ (pc = "emit" /\ InSpan(e, Curr)) => Crosses(e)


(***************************************************************************)
(* The Segment Index on its own: add_equ_y_equals / add_equ_x_equals       *)
(* called any number of times on one line_dict, with endpoints drawn from  *)
(* a small set.  One line_dict is filled by one of the two functions only, *)
(* as in every routine of the source; cfg.align says which.                *)
(***************************************************************************)
MaxCalls == 3

\* endpoints: a horizontal, a vertical, a slope-1 and a slope-1/3 edge are
\* among the pairs
EndPoints == { Pt(0, 0), Pt(1, 0), Pt(1, 1), Pt(3, 1) }

IndexConfigs ==
    { Config(1, align, << >>, Unit, "Alicat", 1, 0) : align \in {"t", "l"} }

\* the variables of the fill routines, which no call from outside touches
idle_vars ==
    << run, first_out, run_start, num_layers, coords, coord, others,
       in_order, start, fill_vars, told >>

Idle ==
    /\ run = 1
    /\ first_out = << >>
    /\ run_start = 1
    /\ num_layers = 0
    /\ coords = << >>
    /\ coord = NoPoint
    /\ others = << >>
    /\ in_order = << >>
    /\ start = NoPoint
    /\ n = 0
    /\ curr_x = 0
    /\ curr_y = 0
    /\ direction = 1
    /\ action_counter = 0
    /\ possible = << >>
    /\ i = 1
    /\ scans = 0
    /\ seconds = 0
    /\ togg_counter = 0
    /\ told = [done |-> FALSE, seconds |-> 0, togg_counter |-> 0]

IndexInit ==
    /\ cfg \in IndexConfigs
    /\ pc = "insert"
    /\ g = InitG
    /\ line_dict = EmptyDict
    /\ calls = << >>
    /\ Idle

\* one call of add_equ_y_equals (tangential) or add_equ_x_equals
\* (longitudinal); the latter may raise IndexError
IndexInsert ==
    /\ pc = "insert"
    /\ Len(calls) < MaxCalls
    /\ \E p1 \in EndPoints, p2 \in EndPoints :
          /\ calls' = Append(calls, << p1, p2 >>)
          /\ IF cfg.align = "t"
             THEN /\ line_dict' = add_equ_y_equals(line_dict, p1, p2)
                  /\ pc' = pc
             ELSE IF add_equ_x_raises(line_dict, p1, p2)
             THEN /\ pc' = "error"
                  /\ UNCHANGED line_dict
             ELSE /\ line_dict' = add_equ_x_equals(line_dict, p1, p2)
                  /\ pc' = pc
    /\ UNCHANGED << cfg, g, idle_vars >>

IndexNext == IndexInsert

IndexSpec == IndexInit /\ [][IndexNext]_vars

(***************************************************************************)
(* C20: duplicate equations                                                *)
(***************************************************************************)
\* no range key holds the same equation twice
NoEqualEquations == \A key \in DOMAIN line_dict : NoRepeat(line_dict[key])

\* the edge of the call just made
LastCall == calls'[Len(calls')]

\* a call has been made and has returned
Returned == Len(calls') = Len(calls) + 1 /\ pc' = "insert"

\* an edge given again, in either endpoint order, leaves line_dict unchanged
ReinsertAnyOrder ==
    (/\ Returned
     /\ \/ SeqContains(calls, LastCall)
        \/ SeqContains(calls, << LastCall[2], LastCall[1] >>))
        => line_dict' = line_dict

ReinsertSameOrder ==
    (/\ Returned
     /\ \/ SeqContains(calls, LastCall)
        \/ /\ cfg.align = "l"
           /\ SeqContains(calls, << LastCall[2], LastCall[1] >>))
        => line_dict' = line_dict

MaxOps == 2

\* footer: None, or the lines of the footer file
GConfigs ==
    { [outfile |-> "path", footer |-> f] :
        f \in { [given |-> FALSE, lines |-> << >>],
                [given |-> TRUE, lines |-> << "M5", "M30" >>] } }

AxisSets == { {"x"}, {"y", "z"}, {"x", "y", "z"} }

\* arguments of a move: a different value on every axis
MoveArgs ==
    { [has |-> has, x |-> v * Unit, y |-> 2 * v * Unit, z |-> -v * Unit] :
        has \in AxisSets, v \in {1, -2} }

\* rectangles and spacings of meander, in units: one whose dimensions are
\* multiples of the spacing, one whose dimensions are not
MeanderArgs ==
    { [x |-> r[1], y |-> r[2], spacing |-> r[3], start |-> st,
       orientation |-> o, tail |-> t] :
        r \in { << 4000, 6000, 2000 >>, << 4300, 4400, 700 >> },
        st \in {"LL", "UL", "LR", "UR"}, o \in {"x", "y"}, t \in BOOLEAN }

GInit ==
    /\ cfg \in GConfigs
    /\ pc = "g"
    /\ g = InitG
    /\ line_dict = EmptyDict
    /\ calls = << >>
    /\ Idle

\* a method is called and returns, leaving the object in state after
GCall(name, args, after) ==
    /\ pc = "g"
    /\ Len(calls) < MaxOps
    /\ g' = after
    /\ calls' = Append(calls, [name |-> name, args |-> args,
                               len |-> Len(after.out)])
    /\ UNCHANGED << cfg, pc, line_dict, idle_vars >>

GMove == \E a \in MoveArgs : GCall("move", a, move(g, a.has, a.x, a.y, a.z))

GAbsMove ==
    \E a \in MoveArgs : GCall("abs_move", a, abs_move(g, a.has, a.x, a.y, a.z))

GRelMove ==
    \E a \in MoveArgs : GCall("rel_move", a, rel_move(g, a.has, a.x, a.y, a.z))

GRelative == GCall("relative", << >>, relative(g))

GAbsolute == GCall("absolute", << >>, absolute(g))

GSetup == GCall("setup", << >>, setup(g))

GSetHome ==
    \E a \in MoveArgs : GCall("set_home", a, set_home(g, a.has, a.x, a.y, a.z))

GHome == GCall("home", << >>, home(g))

GMeander ==
    \E a \in MeanderArgs :
        GCall("meander", a,
              meander(g, a.x, a.y, a.spacing, a.start, a.orientation, a.tail))

GTeardown ==
    /\ ~teardown_raises(cfg.footer)
    /\ GCall("teardown", << >>, teardown(g, cfg.outfile, cfg.footer))

GNext ==
    \/ GMove
    \/ GAbsMove
    \/ GRelMove
    \/ GRelative
    \/ GAbsolute
    \/ GSetup
    \/ GSetHome
    \/ GHome
    \/ GMeander
    \/ GTeardown

GSpec == GInit /\ [][GNext]_vars

\* a call has just returned
Called == Len(calls') = Len(calls) + 1

TheCall == calls'[Len(calls')]

(***************************************************************************)
(* C13: abs_move                                                           *)
(***************************************************************************)
AbsMoveStep ==
    (Called /\ TheCall.name = "abs_move") =>
        /\ g'.is_relative = g.is_relative
        /\ \A axis \in {"x", "y", "z"} :
              g'[axis] = (IF axis \in TheCall.args.has THEN TheCall.args[axis]
                          ELSE g[axis])

\* C13: abs_move leaves the movement mode as it was, sets the tracked
\* position of every given axis to the given absolute value and leaves the
\* tracked position of every other axis unchanged
C13_AbsMovePreservesMode == [][AbsMoveStep]_vars

\* abs_move(x) was called on a relative machine that had moved in y and z
C13_Witness ==
    /\ Len(calls) = 2
    /\ calls[2].name = "abs_move"
    /\ calls[2].args.has = {"x"}
    /\ g.is_relative
    /\ g.y # 0
    /\ g.z # 0
    /\ g.x = calls[2].args.x

(***************************************************************************)
(* C14: meander                                                            *)
(***************************************************************************)
\* the smallest integer not below a / b, for positive a and b
CeilDiv(a, b) == (a + b - 1) \div b

MeanderStep ==
    (Called /\ TheCall.name = "meander") =>
        LET a == TheCall.args
            minor == IF a.orientation = "x" THEN MeanderY(a.y, a.start)
                     ELSE MeanderX(a.x, a.start)
            minor_name == IF a.orientation = "x" THEN "y" ELSE "x"
            passes == CeilDiv(Abs(minor), a.spacing)
            jogs == SelectSeq(Added(g, g'),
                              LAMBDA c : c.op = "G1" /\ c.has = {minor_name})
        IN  /\ Len(jogs) = passes
            /\ \A k \in 1..Len(jogs) :
                  jogs[k][minor_name] = RoundDiv(minor, passes)
            /\ Abs((g'[minor_name] - g[minor_name]) - minor) <= passes
            /\ g'.is_relative = g.is_relative

\* C14: meander makes ceil(|minor| / spacing) jogs along the minor axis, all
\* of the adjusted spacing minor / passes, so that the minor-axis
\* displacement is the minor dimension (up to the rounding of the quotient,
\* half a unit per jog), for every start corner and orientation, and the
\* movement mode after meander is the mode before it
C14_MeanderCoversMinor == [][MeanderStep]_vars

(***************************************************************************)
(* C15: teardown                                                           *)
(***************************************************************************)
\* C15: once teardown has been called the footer lines are in the file, the
\* file is closed and nothing has been written after teardown returned
C15_ClosedAfterTeardown ==
    \A k \in 1..Len(calls) :
        calls[k].name = "teardown" =>
            /\ cfg.footer.given =>
                  \A j \in 1..Len(cfg.footer.lines) :
                      \E c \in Range(g.out) : c.op = cfg.footer.lines[j]
            /\ g.fd = "closed"
            /\ Len(g.out) = calls[k].len


(***************************************************************************)
(* C21: the scan coordinate                                                *)
(***************************************************************************)
\* +1 where the scan coordinate grows (tangential), -1 where it falls
ScanDir == IF cfg.align = "t" THEN 1 ELSE -1

\* the start vertex has the least scan coordinate of the boundary in a
\* tangential fill, the greatest in a longitudinal fill
StartsAtExtremum ==
    \A k \in 1..Len(Polygon) :
        ScanDir * start[Axis] <= ScanDir * Polygon[k][Axis]

\* the scan coordinate after `scans` scanlines of the layer
ScanCoordinate == start[Axis] + ScanDir * scans * Pitch(cfg)

\* a move of the loop over the ordinates is made on the scanline's coordinate
MoveOnScanline ==
    pc = "emit" =>
        LET moves == SelectSeq(Added(g, g'), IsMoveCmd)
        IN  /\ Len(moves) = 1
            /\ (IF cfg.align = "t" THEN moves[1].x - Xs ELSE moves[1].y - Ys)
                 = ScanCoordinate

\* C21: in a layer the scan coordinate starts at the start vertex, a
\* boundary extremum, and is one pitch further after every scanline (up in
\* x for tangential fills, down in y for longitudinal fills); every move of
\* a scanline is made on that scanline's coordinate
C21_MonotoneScan ==
    /\ [] (pc \in {"scan", "emit"} =>
             StartsAtExtremum /\ Curr = ScanCoordinate)
    /\ [][MoveOnScanline]_vars


(***************************************************************************)
(* C22: the Z step between layers                                          *)
(***************************************************************************)
IsZStep(c) == c.op = "G1" /\ c.has = {"z"}

\* the mode the machine that reads the lines is in after them
ModeAfter(lines) ==
    LET modes == SelectSeq(lines, IsModeCmd)
    IN  modes[Len(modes)].op

\* the top of a layer: no valve command; before every layer but the first
\* one Z move of one pitch, read in relative mode, which leaves the tracked
\* X and Y alone; then the travel to the start vertex, read in absolute mode
LayerStartStep ==
    pc = "layer" =>
        LET added == Added(g, g')
            moves == SelectSeq(added, IsMoveCmd)
            travel == moves[Len(moves)]
            upto(c) == CHOOSE k \in 1..Len(added) : added[k] = c
        IN  /\ SelectSeq(added, IsValveCmd) = << >>
            /\ Len(moves) = (IF n = 0 THEN 1 ELSE 2)
            /\ n # 0 =>
                  /\ moves[1] = Cmd("G1", {"z"}, 0, 0, Pitch(cfg))
                  /\ ModeAfter(g.out \o SubSeq(added, 1, upto(moves[1])))
                       = "G91"
                  /\ g'.z = g.z + Pitch(cfg)
            /\ n = 0 => g'.z = g.z
            /\ travel = Cmd("G1", {"x", "y"}, start[1] + Xs, start[2] + Ys, 0)
            /\ ModeAfter(g.out \o SubSeq(added, 1, upto(travel))) = "G90"
            /\ << g'.x, g'.y >> = << start[1] + Xs, start[2] + Ys >>

dwell(before, time) ==
    write(before, [op |-> "G4", has |-> {"p"}, x |-> 0, y |-> 0, z |-> 0,
              p |-> time])

pressure_on_pso(before) ==
    write(before, Cmd("PSOCONTROL X FIRE CONTINUOUS", {}, 0, 0, 0))

pressure_off_pso(before) == write(before, Cmd("PSOCONTROL X OFF", {}, 0, 0, 0))

\* variant: the pulse generator is started after the move
Stroke_late(before, from, to, c) ==
    LET g1 == rel_move(before, {"z"}, 0, 0, 5 * c.nozzle_size)
        g2 == abs_move(g1, {"x", "y"}, from[1], from[2], 0)
        g3 == rel_move(g2, {"z"}, 0, 0, -5 * c.nozzle_size)
        g4 == abs_move(g3, {"x", "y"}, to[1], to[2], 0)
        g5 == dwell(pressure_on_pso(g4), c.tiz)
    IN  dwell(pressure_off_pso(g5), c.tfz)

\* the body of the print loop, the same in f1, f2 and f3
Stroke(before, from, to, c) ==
    LET g1 == rel_move(before, {"z"}, 0, 0, 5 * c.nozzle_size)
        g2 == abs_move(g1, {"x", "y"}, from[1], from[2], 0)
        g3 == rel_move(g2, {"z"}, 0, 0, -5 * c.nozzle_size)
        g4 == dwell(pressure_on_pso(g3), c.tiz)
        g5 == abs_move(g4, {"x", "y"}, to[1], to[2], 0)
    IN  dwell(pressure_off_pso(g5), c.tfz)

\* the vertices of a rectangle sorted by angle around the centroid and
\* rolled to start at the bottom left (f1) or the bottom right (f2)
sorted_perim(c) ==
    LET bl == << c.x_lo, c.y_lo >>
        br == << c.x_hi, c.y_lo >>
        tr == << c.x_hi, c.y_hi >>
        tl == << c.x_lo, c.y_hi >>
    IN  IF c.alg = 1 THEN << bl, br, tr, tl >> ELSE << br, tr, tl, bl >>

inc_y(c) == RoundDiv(c.nozzle_size * c.spacing, Unit)

y_max(c) == IF c.alg = 1 THEN sorted_perim(c)[3][2] ELSE sorted_perim(c)[2][2]

\* the two ends of the stroke at curr_y
StrokeEnds(c) ==
    IF c.alg = 1
    THEN << << curr_x + inc_y(c), curr_y >>, << sorted_perim(c)[2][1], curr_y >> >>
    ELSE << << curr_x, curr_y >>, << sorted_perim(c)[3][1] + inc_y(c), curr_y >> >>

FConfigs ==
    { [alg |-> a, x_lo |-> 0, y_lo |-> yl * Unit, x_hi |-> xh * Unit,
       y_hi |-> yh * Unit, nozzle_size |-> ns, spacing |-> sp,
       tiz |-> 100, tfz |-> 200] :
        a \in {1, 2, 3}, yl \in {-1, 0}, xh \in {2, 3}, yh \in {1, 2},
        ns \in {400, 1000}, sp \in {Unit, 2 * Unit} }

f_vars ==
    << run, first_out, run_start, num_layers, coords, coord, others,
       in_order, start, n, direction, action_counter, possible, i, scans,
       seconds, togg_counter, told, line_dict, calls >>

FInit ==
    /\ cfg \in FConfigs
    /\ pc = "f"
    /\ g = InitG
    /\ line_dict = EmptyDict
    /\ calls = << >>
    /\ Idle

\* f1, f2 up to the loop: the perimeter is sorted and the origin is set
FStart ==
    /\ pc = "f"
    /\ cfg.alg \in {1, 2}
    /\ curr_x' = sorted_perim(cfg)[1][1]
    /\ curr_y' = sorted_perim(cfg)[1][2]
    /\ g' = set_home(g, {"x", "y"}, 0, 0, 0)
    /\ pc' = "stroke"
    /\ UNCHANGED << cfg, f_vars >>

\* one iteration of `while curr_y <= y_max`
FStroke ==
    /\ pc = "stroke"
    /\ curr_y <= y_max(cfg)
    /\ g' = Stroke(g, StrokeEnds(cfg)[1], StrokeEnds(cfg)[2], cfg)
    /\ curr_y' = curr_y + inc_y(cfg)
    /\ UNCHANGED << cfg, pc, curr_x, f_vars >>

\* after the loop: lift and go home
FEnd ==
    /\ pc = "stroke"
    /\ curr_y > y_max(cfg)
    /\ g' = home(rel_move(g, {"z"}, 0, 0, 5 * cfg.nozzle_size))
    /\ pc' = "done"
    /\ UNCHANGED << cfg, curr_x, curr_y, f_vars >>

\* f3: math.floor of the array of perimeter points raises TypeError before
\* anything is written
F3Raises ==
    /\ pc = "f"
    /\ cfg.alg = 3
    /\ pc' = "error"
    /\ UNCHANGED << cfg, g, curr_x, curr_y, f_vars >>

FNext ==
    \/ FStart
    \/ FStroke
    \/ FEnd
    \/ F3Raises

FSpec == FInit /\ [][FNext]_vars

(***************************************************************************)
(* C23: the order of a stroke                                              *)
(***************************************************************************)
IsPsoCmd(c) ==
    c.op \in {"PSOCONTROL X FIRE CONTINUOUS", "PSOCONTROL X OFF"}

\* the pulse generator is on after the lines
PsoOn(lines) ==
    LET pso == SelectSeq(lines, IsPsoCmd)
    IN  /\ pso # << >>
        /\ pso[Len(pso)].op = "PSOCONTROL X FIRE CONTINUOUS"

\* what a line is to the claim, given the lines before it
Kind(lines, k) ==
    LET c == lines[k]
        before == SubSeq(lines, 1, k - 1)
        mode == ModeAfter(before)
    IN  IF c.op = "G4" THEN "dwell"
        ELSE IF c.op = "PSOCONTROL X FIRE CONTINUOUS" THEN "on"
        ELSE IF c.op = "PSOCONTROL X OFF" THEN "off"
        ELSE IF c.op = "G1" /\ c.has = {"z"} /\ mode = "G91"
        THEN (IF c.z > 0 THEN "lift" ELSE "lower")
        ELSE IF c.op = "G1" /\ c.has = {"x", "y"} /\ mode = "G90"
        THEN (IF PsoOn(before) THEN "dispense" ELSE "travel")
        ELSE "other"

\* the kinds of the lines from index from on, mode commands left out
RECURSIVE Kinds(_, _)
Kinds(lines, from) ==
    IF from > Len(lines) THEN << >>
    ELSE IF IsModeCmd(lines[from]) THEN Kinds(lines, from + 1)
    ELSE << Kind(lines, from) >> \o Kinds(lines, from + 1)

StrokeOrder ==
    << "lift", "travel", "lower", "on", "dwell", "dispense", "off", "dwell" >>

\* the lines a stroke adds have the kinds of StrokeOrder, the travel goes
\* to the start of the stroke and the dispensing move to its end
StrokeStep ==
    (pc = "stroke" /\ pc' = "stroke") =>
        LET moves == SelectSeq(Added(g, g'), IsMoveCmd)
        IN  /\ Kinds(g'.out, Len(g.out) + 1) = StrokeOrder
            /\ << moves[2].x, moves[2].y >> = StrokeEnds(cfg)[1]
            /\ << moves[4].x, moves[4].y >> = StrokeEnds(cfg)[2]

\* on and off commands alternate, starting with on
PsoAlternates ==
    LET pso == SelectSeq(g.out, IsPsoCmd)
    IN  \A k \in 1..Len(pso) :
            pso[k].op = (IF k % 2 = 1 THEN "PSOCONTROL X FIRE CONTINUOUS"
                         ELSE "PSOCONTROL X OFF")

\* every move made with the pulse generator on is a dispensing move, and
\* there is exactly one of them between an on and the next off
OnDuringOneMove ==
    /\ \A k \in 1..Len(g.out) :
          (IsMoveCmd(g.out[k]) /\ PsoOn(SubSeq(g.out, 1, k - 1))) =>
              /\ Kind(g.out, k) = "dispense"
              /\ g.out[k - 1].op = "G4"
              /\ g.out[k - 2].op = "PSOCONTROL X FIRE CONTINUOUS"
    /\ pc = "stroke" =>
          Len(SelectSeq(g.out, IsPsoCmd)) = 2 * (Len(g.trace) \div 4)

\* the planner has returned: its last line but the mode command is the
\* move home, made with the pulse generator off
HomeOff ==
    pc = "done" =>
        LET moves == SelectSeq(g.out, IsMoveCmd)
            last == moves[Len(moves)]
        IN  /\ last = Cmd("G1", {"x", "y"}, 0, 0, 0)
            /\ ~PsoOn(g.out)
            /\ Kinds(g.out, Len(g.out) - 3) = << "lift", "travel" >>

FooterStep ==
    (Called /\ TheCall.name = "teardown" /\ cfg.footer.given) =>
        LET added == Added(g, g')
        IN  /\ Len(added) = Len(cfg.footer.lines)
            /\ \A k \in 1..Len(added) : added[k].op = cfg.footer.lines[k]

\* C24: _write_out(lines=L) writes every element of L exactly once, in
\* order, and nothing else, so that a footer file of n lines adds exactly n
\* lines to the output
C24_LinesOnce == [][FooterStep]_vars

(***************************************************************************)
(* C25: is_relative and the mode commands                                  *)
(***************************************************************************)
ModeInSync == g.is_relative <=> (ModeAfter(g.out) = "G91")

ModeCallStep ==
    /\ (Called /\ TheCall.name = "relative") =>
          /\ g'.is_relative
          /\ Added(g, g') = (IF g.is_relative THEN << >>
                             ELSE << Cmd("G91", {}, 0, 0, 0) >>)
    /\ (Called /\ TheCall.name = "absolute") =>
          /\ ~g'.is_relative
          /\ Added(g, g') = (IF g.is_relative
                             THEN << Cmd("G90", {}, 0, 0, 0) >> ELSE << >>)

PositionCalls == {"move", "abs_move", "rel_move", "set_home"}

HistoryLast ==
    g.position_history[Len(g.position_history)] = << g.x, g.y, g.z >>

\* the entry a call adds: the previous entry with, on every given axis, the
\* given value added when rel and the given value itself otherwise
Entry(prev, a, rel) ==
    << IF "x" \in a.has THEN (IF rel THEN prev[1] + a.x ELSE a.x) ELSE prev[1],
       IF "y" \in a.has THEN (IF rel THEN prev[2] + a.y ELSE a.y) ELSE prev[2],
       IF "z" \in a.has THEN (IF rel THEN prev[3] + a.z ELSE a.z) ELSE prev[3] >>

\* one entry is added by the call, computed in the mode rel(name)
HistoryStep(rel(_)) ==
    (Called /\ TheCall.name \in PositionCalls) =>
        LET h == g.position_history
        IN  g'.position_history =
                Append(h, Entry(h[Len(h)], TheCall.args, rel(TheCall.name)))

\* the mode the machine is in while the call moves: abs_move switches to
\* absolute and rel_move to relative, the others keep the current mode
RanRelative(name) ==
    IF name = "abs_move" THEN FALSE
    ELSE IF name = "rel_move" THEN TRUE
    ELSE g.is_relative

\* set_home tracks the position in absolute mode whatever the current mode
TrackedRelative(name) == name # "set_home" /\ RanRelative(name)

InLayer == pc \in {"scan", "emit", "layer_end"}

CounterValues ==
    IF cfg.pressure_box = "Nordson" THEN {2, -2} ELSE {1, -1}

\* the counter after k sign changes
Signed(counter, k) == IF k % 2 = 0 THEN counter ELSE -counter

\* the action the claim gives a counter value
ActionOf(counter) ==
    IF cfg.pressure_box = "Nordson" THEN "toggle"
    ELSE IF counter = 1 THEN "open" ELSE "close"

\* a step of a layer changes the sign of the counter once for every valve
\* command it writes, and the action of every valve command is the one of
\* the counter at that time, a case of toggle_valve
CounterStep ==
    InLayer =>
        LET valves == SelectSeq(Added(g, g'), IsValveCmd)
        IN  /\ action_counter' = Signed(action_counter, Len(valves))
            /\ \A k \in 1..Len(valves) :
                  /\ valves[k].op = ActionOf(Signed(action_counter, k))
                  /\ << cfg.pressure_box, valves[k].op >> \in ValveCases

\* the top of a layer writes no valve command and sets the counter so that
\* the first action of the layer is "open", or "toggle" for Nordson
CounterStart ==
    pc = "layer" =>
        /\ SelectSeq(Added(g, g'), IsValveCmd) = << >>
        /\ action_counter' = (IF cfg.pressure_box = "Nordson" THEN 2 ELSE -1)

\* C27: during a fill layer action_counter only changes sign; it stays in
\* {1, -1} for Alicat and Solenoid, whose actions alternate open, close,
\* open, ... from the entry flip on, and in {2, -2} for Nordson, whose
\* actions are all "toggle"; the (pressure_box, action) pair is always a
\* case of toggle_valve
C27_CounterSign ==
    /\ [] (InLayer => action_counter \in CounterValues)
    /\ [][CounterStep /\ CounterStart]_vars

\* a layer of an Alicat run that has opened and closed the valve
C27_Witness ==
    /\ pc = "layer_end"
    /\ cfg.pressure_box = "Alicat"
    /\ n = 0
    /\ action_counter = -1
    /\ Len(ValveCmds) >= 2
    /\ ValveCmds[1].op = "open"
    /\ ValveCmds[2].op = "close"

(***************************************************************************)
(* C28: the layers of a run                                                *)
(***************************************************************************)
\* the index and the start vertex are left alone once the fill has begun
IndexRead ==
    (InLayer \/ pc \in {"layer", "finish"}) =>
        /\ line_dict' = line_dict
        /\ start' = start

\* the top of a layer: direction +1, at the start vertex
LayerTop ==
    pc = "layer" =>
        /\ direction' = 1
        /\ << curr_x', curr_y' >> = start

IsTargetOrValve(c) == (IsMoveCmd(c) /\ c.has = {"x", "y"}) \/ IsValveCmd(c)

\* n layers are done: the XY targets and valve actions of the run are n
\* times those of the first layer
LayersRepeat ==
    (pc \in {"layer", "finish"} /\ n >= 1) =>
        LET all == SelectSeq(RunOut, IsTargetOrValve)
            len == Len(all) \div n
        IN  /\ Len(all) = n * len
            /\ \A k \in 1..Len(all) : all[k] = all[((k - 1) % len) + 1]

\* C28: scanning never modifies line_dict, every layer starts with
\* direction +1 at the same start vertex, and every layer writes the same
\* XY targets and the same valve actions as the first
C28_LayersAlike ==
    /\ [][IndexRead /\ LayerTop]_vars
    /\ [] LayersRepeat

\* two layers are done, the first of an odd number of scanlines
C28_Witness ==
    /\ pc = "finish"
    /\ n = 2
    /\ Len(SelectSeq(RunOut, IsValveCmd)) >= 4
    /\ direction = -1

(***************************************************************************)
(* C29: rel_move                                                           *)
(***************************************************************************)
Axes == {"x", "y", "z"}

\* rel_move adds the given deltas and leaves the machine in absolute mode
RelMoveStep ==
    (Called /\ TheCall.name = "rel_move") =>
        /\ ~g'.is_relative
        /\ ModeAfter(g'.out) = "G90"
        /\ \A axis \in Axes :
              g'[axis] = (IF axis \in TheCall.args.has
                          THEN g[axis] + TheCall.args[axis] ELSE g[axis])

\* a move right after a rel_move is tracked as absolute
MoveAfterRelMove ==
    (Called /\ TheCall.name = "move" /\ calls # << >>
       /\ calls[Len(calls)].name = "rel_move") =>
        \A axis \in TheCall.args.has : g'[axis] = TheCall.args[axis]

====
